---- MODULE Spec2Model ----
(***************************************************************************)
(* GothamStore (src/lib.rs): a map from TypeId to a type-erased box,       *)
(* holding at most one value per type.  Every public method is an          *)
(* operator on the map translated from its body, and an action that        *)
(* applies it to the store.  The variables call, ret, pre and latest       *)
(* record the last call, what it returned, the map before it and the value *)
(* last written for each type identity.                                    *)
(***************************************************************************)
EXTENDS Integers, FiniteSets, Sequences, TLC

\* Number of distinct values of each stored type that the callers use.
MaxVal == 2

Values == 0 .. (MaxVal - 1)

NoVal == -1

\* The type names the callers instantiate T with (tests, lines 94-103).
TypeNames == {"MyStruct", "AnotherStruct", "Alias1", "Alias2"}

TypeIdOf_byName(T) ==
  CASE T = "MyStruct" -> "id_MyStruct"
    [] T = "AnotherStruct" -> "id_AnotherStruct"
    [] T = "Alias1" -> "id_Alias1"
    [] T = "Alias2" -> "id_Alias2"

\* TypeId::of::<T>(): Alias1 and Alias2 are both `String`.
TypeIdOf(T) ==
  CASE T = "MyStruct" -> "id_MyStruct"
    [] T = "AnotherStruct" -> "id_AnotherStruct"
    [] T = "Alias1" -> "id_String"
    [] T = "Alias2" -> "id_String"

TypeIds == {TypeIdOf(T) : T \in TypeNames}

\* type_name::<T>()
type_name(T) ==
  CASE T = "MyStruct" -> "gotham_store::tests::MyStruct"
    [] T = "AnotherStruct" -> "gotham_store::tests::AnotherStruct"
    [] T = "Alias1" -> "alloc::string::String"
    [] T = "Alias2" -> "alloc::string::String"

(***************************************************************************)
(* Return values.                                                          *)
(***************************************************************************)
NoMsg == <<>>

Unit == [kind |-> "Unit", val |-> NoVal, flag |-> FALSE, msg |-> NoMsg]

None == [kind |-> "None", val |-> NoVal, flag |-> FALSE, msg |-> NoMsg]

Some(v) == [kind |-> "Some", val |-> v, flag |-> FALSE, msg |-> NoMsg]

Val(v) == [kind |-> "Val", val |-> v, flag |-> FALSE, msg |-> NoMsg]

Bool(b) == [kind |-> "Bool", val |-> NoVal, flag |-> b, msg |-> NoMsg]

Usize(n) == [kind |-> "Usize", val |-> n, flag |-> FALSE, msg |-> NoMsg]

Panic(m) == [kind |-> "Panic", val |-> NoVal, flag |-> FALSE, msg |-> m]

(***************************************************************************)
(* Box<dyn Any>: the value together with the TypeId of its concrete type.  *)
(***************************************************************************)
BoxNew_byName(T, v) == [tid |-> T, val |-> v]

BoxNew(T, v) == [tid |-> TypeIdOf(T), val |-> v]

downcast_never(b, T) == None

\* b.downcast_ref() / downcast_mut() / downcast().ok(): Some iff the box's
\* concrete type is T.
downcast(b, T) == IF b.tid = TypeIdOf(T) THEN Some(b.val) ELSE None

(***************************************************************************)
(* BTreeMap<TypeId, Box<dyn Any>> as a function on the set of its keys.    *)
(***************************************************************************)
EmptyMap == [k \in {} |-> [tid |-> "", val |-> NoVal]]

MapInsert(m, k, b) == [x \in DOMAIN m \cup {k} |-> IF x = k THEN b ELSE m[x]]

MapContainsKey(m, k) == k \in DOMAIN m

MapRemove_clear(m, k) == EmptyMap

MapRemove(m, k) == [x \in DOMAIN m \ {k} |-> m[x]]

MapLen(m) == Cardinality(DOMAIN m)

MapIsEmpty(m) == DOMAIN m = {}

(***************************************************************************)
(* The methods of GothamStore, as functions of the map `data`.             *)
(***************************************************************************)
put_keep_existing(data, T, t) ==
  IF TypeIdOf(T) \in DOMAIN data THEN data
  ELSE MapInsert(data, TypeIdOf(T), BoxNew(T, t))

put(data, T, t) == MapInsert(data, TypeIdOf(T), BoxNew(T, t))

has(data, T) == MapContainsKey(data, TypeIdOf(T))

try_borrow(data, T) ==
  IF MapContainsKey(data, TypeIdOf(T))
  THEN downcast(data[TypeIdOf(T)], T)
  ELSE None

missing_anonymous(T) ==
  Panic(<<"required type ", "T", " is not present in GothamStore container">>)

missing(T) ==
  Panic(<<"required type ", type_name(T),
          " is not present in GothamStore container">>)

unwrap_or_missing(opt, T) ==
  IF opt.kind = "Some" THEN Val(opt.val) ELSE missing(T)

borrow(data, T) == unwrap_or_missing(try_borrow(data, T), T)

try_borrow_mut(data, T) ==
  IF MapContainsKey(data, TypeIdOf(T))
  THEN downcast(data[TypeIdOf(T)], T)
  ELSE None

borrow_mut(data, T) == unwrap_or_missing(try_borrow_mut(data, T), T)

write_copy(data, T, w) == data

\* An assignment through the &mut T a mutable borrow returned: it writes the
\* value inside the box of T's entry.
write(data, T, w) ==
  [data EXCEPT ![TypeIdOf(T)] = [tid |-> @.tid, val |-> w]]

try_take_peek(data, T) ==
  IF MapContainsKey(data, TypeIdOf(T))
  THEN [data |-> data, ret |-> downcast(data[TypeIdOf(T)], T)]
  ELSE [data |-> data, ret |-> None]

\* try_take: the entry is removed first, then the removed box is downcast.
try_take(data, T) ==
  IF MapContainsKey(data, TypeIdOf(T))
  THEN [data |-> MapRemove(data, TypeIdOf(T)),
        ret |-> downcast(data[TypeIdOf(T)], T)]
  ELSE [data |-> data, ret |-> None]

take(data, T) ==
  [data |-> try_take(data, T).data,
   ret |-> unwrap_or_missing(try_take(data, T).ret, T)]

(***************************************************************************)
(* State.                                                                  *)
(***************************************************************************)
VARIABLES data, call, ret, pre, latest

vars == <<data, call, ret, pre, latest>>

Call(op, T, v) == [op |-> op, T |-> T, v |-> v]

\* GothamStore::default(): an empty map.
Init ==
  /\ data = EmptyMap
  /\ call = Call("default", "", NoVal)
  /\ ret = Unit
  /\ pre = EmptyMap
  /\ latest = [k \in TypeIds |-> NoVal]

Put(T, t) ==
  /\ data' = put(data, T, t)
  /\ call' = Call("put", T, t)
  /\ ret' = Unit
  /\ pre' = data
  /\ latest' = [latest EXCEPT ![TypeIdOf(T)] = t]

Has(T) ==
  /\ call' = Call("has", T, NoVal)
  /\ ret' = Bool(has(data, T))
  /\ pre' = data
  /\ UNCHANGED <<data, latest>>

TryBorrow(T) ==
  /\ call' = Call("try_borrow", T, NoVal)
  /\ ret' = try_borrow(data, T)
  /\ pre' = data
  /\ UNCHANGED <<data, latest>>

Borrow(T) ==
  /\ call' = Call("borrow", T, NoVal)
  /\ ret' = borrow(data, T)
  /\ pre' = data
  /\ UNCHANGED <<data, latest>>

\* try_borrow_mut, and the caller's assignment of w through the reference
\* when one is returned (`if let Some(a) = ... { a.value = w }`).
TryBorrowMut(T, w) ==
  /\ call' = Call("try_borrow_mut", T, w)
  /\ ret' = try_borrow_mut(data, T)
  /\ pre' = data
  /\ IF try_borrow_mut(data, T).kind = "Some"
     THEN /\ data' = write(data, T, w)
          /\ latest' = [latest EXCEPT ![TypeIdOf(T)] = w]
     ELSE UNCHANGED <<data, latest>>

\* borrow_mut, and the caller's assignment of w through the reference; a
\* panic leaves the store as it was.
BorrowMut(T, w) ==
  /\ call' = Call("borrow_mut", T, w)
  /\ ret' = borrow_mut(data, T)
  /\ pre' = data
  /\ IF borrow_mut(data, T).kind = "Val"
     THEN /\ data' = write(data, T, w)
          /\ latest' = [latest EXCEPT ![TypeIdOf(T)] = w]
     ELSE UNCHANGED <<data, latest>>

TryTake(T) ==
  /\ call' = Call("try_take", T, NoVal)
  /\ ret' = try_take(data, T).ret
  /\ data' = try_take(data, T).data
  /\ pre' = data
  /\ UNCHANGED latest

Take(T) ==
  /\ call' = Call("take", T, NoVal)
  /\ ret' = take(data, T).ret
  /\ data' = take(data, T).data
  /\ pre' = data
  /\ UNCHANGED latest

\* Deref to the map: store.len()
StoreLen ==
  /\ call' = Call("len", "", NoVal)
  /\ ret' = Usize(MapLen(data))
  /\ pre' = data
  /\ UNCHANGED <<data, latest>>

\* Deref to the map: store.is_empty()
StoreIsEmpty ==
  /\ call' = Call("is_empty", "", NoVal)
  /\ ret' = Bool(MapIsEmpty(data))
  /\ pre' = data
  /\ UNCHANGED <<data, latest>>

Next ==
  \/ \E T \in TypeNames, t \in Values : Put(T, t)
  \/ \E T \in TypeNames : Has(T)
  \/ \E T \in TypeNames : TryBorrow(T)
  \/ \E T \in TypeNames : Borrow(T)
  \/ \E T \in TypeNames, w \in Values : TryBorrowMut(T, w)
  \/ \E T \in TypeNames, w \in Values : BorrowMut(T, w)
  \/ \E T \in TypeNames : TryTake(T)
  \/ \E T \in TypeNames : Take(T)
  \/ StoreLen
  \/ StoreIsEmpty

Spec == Init /\ [][Next]_vars

TypeOK ==
  /\ DOMAIN data \subseteq TypeIds
  /\ \A k \in DOMAIN data : data[k].val \in Values
  /\ latest \in [TypeIds -> Values \cup {NoVal}]

(***************************************************************************)
(* Properties.                                                             *)
(***************************************************************************)
Parameterized == {"put", "borrow_mut", "try_borrow_mut", "take", "try_take"}

Takes == {"take", "try_take"}

MutBorrows == {"borrow_mut", "try_borrow_mut"}

TryOps == {"try_borrow", "try_borrow_mut", "try_take"}

Aliases == {"Alias1", "Alias2"}

MissingMsg(T) ==
  <<"required type ", type_name(T), " is not present in GothamStore container">>

\* The number of distinct type identities that has::<T>() reports present.
PresentCount ==
  Cardinality({TypeIdOf(T) : T \in {N \in TypeNames : has(data, N)}})

\* C1: right after put(v) for a type T, whether T was absent or present
\* before, has::<T>() is true and borrow::<T>() returns v without panicking.
C1_PutThenHasAndBorrow ==
  call.op = "put" =>
    /\ has(data, call.T)
    /\ borrow(data, call.T) = Val(call.v)

C1_Witness ==
  /\ call.op = "put"
  /\ has(pre, call.T)
  /\ pre[TypeIdOf(call.T)].val # call.v

\* C2: a put of v2 for a type that already holds v1 leaves exactly one entry
\* for the type, holding v2; v1 can no longer be borrowed under any name of
\* the type; the number of entries is what it was after the first put.
C2_PutOverwrites ==
  (call.op = "put" /\ has(pre, call.T)) =>
    /\ Cardinality({k \in DOMAIN data : k = TypeIdOf(call.T)}) = 1
    /\ try_borrow(data, call.T) = Some(call.v)
    /\ \A N \in TypeNames :
         (TypeIdOf(N) = TypeIdOf(call.T) /\ pre[TypeIdOf(call.T)].val # call.v)
           => try_borrow(data, N) # Some(pre[TypeIdOf(call.T)].val)
    /\ MapLen(data) = MapLen(pre)

C2_Witness ==
  /\ call.op = "put"
  /\ has(pre, call.T)
  /\ pre[TypeIdOf(call.T)].val # call.v
  /\ MapLen(pre) = 2

\* C3: an operation parameterized by T1 leaves the presence and the value of
\* every type T2 with another identity as they were.
C3_DistinctTypesIndependent ==
  call.op \in Parameterized =>
    \A T2 \in TypeNames :
      TypeIdOf(T2) # TypeIdOf(call.T) =>
        /\ has(data, T2) = has(pre, T2)
        /\ try_borrow(data, T2) = try_borrow(pre, T2)

C3_Witness ==
  /\ call.op = "try_take"
  /\ ret.kind = "Some"
  /\ \E T2 \in TypeNames : TypeIdOf(T2) # TypeIdOf(call.T) /\ has(data, T2)

\* C4: in every state and for every type T, try_borrow::<T>() is None iff
\* has::<T>() is false; a present entry is returned as Some of its value by
\* try_borrow and try_borrow_mut (its downcast never fails).
C4_TryBorrowNoneIffAbsent ==
  /\ \A T \in TypeNames :
       /\ (try_borrow(data, T) = None) <=> ~has(data, T)
       /\ has(data, T) =>
            /\ try_borrow(data, T) = Some(data[TypeIdOf(T)].val)
            /\ try_borrow_mut(data, T) = Some(data[TypeIdOf(T)].val)
  /\ call.op = "try_borrow" => ((ret = None) <=> ~has(pre, call.T))

C4_Witness ==
  /\ call.op = "try_borrow"
  /\ ret.kind = "Some"
  /\ \E T \in TypeNames : ~has(data, T)

\* C5: take / try_take of a present type returns the value most recently
\* stored for it and removes the entry: has is then false and try_borrow,
\* try_borrow_mut and try_take return None; an absent type becomes present
\* only by a put of that type.
C5_TakeRemoves ==
  /\ (call.op \in Takes /\ has(pre, call.T)) =>
       /\ ret = IF call.op = "take"
                THEN Val(latest[TypeIdOf(call.T)])
                ELSE Some(latest[TypeIdOf(call.T)])
       /\ ~has(data, call.T)
       /\ try_borrow(data, call.T) = None
       /\ try_borrow_mut(data, call.T) = None
       /\ try_take(data, call.T).ret = None
  /\ \A k \in TypeIds :
       (k \notin DOMAIN pre /\ k \in DOMAIN data)
         => (call.op = "put" /\ TypeIdOf(call.T) = k)

C5_Witness ==
  /\ call.op = "take"
  /\ has(pre, call.T)
  /\ ret.kind = "Val"
  /\ MapLen(data) > 0

\* C6: borrow, borrow_mut and take panic exactly when the type is absent,
\* with a message naming the type; when it is present they return its value.
C6_PanicIffAbsent ==
  call.op \in {"borrow", "borrow_mut", "take"} =>
    /\ (ret.kind = "Panic") <=> ~has(pre, call.T)
    /\ ret.kind = "Panic" => (ret.msg = MissingMsg(call.T) /\ data = pre)
    /\ has(pre, call.T) => ret = Val(pre[TypeIdOf(call.T)].val)

C6_Witness ==
  /\ call.op = "take"
  /\ ret.kind = "Panic"
  /\ MapLen(data) > 0

\* C7: try_borrow, try_borrow_mut and try_take of an absent type return None
\* and leave the store unchanged; try_take returns None only when the type
\* was absent.
C7_TryOnAbsentChangesNothing ==
  /\ (call.op \in TryOps /\ ~has(pre, call.T)) => (ret = None /\ data = pre)
  /\ (call.op = "try_take" /\ ret = None) => (~has(pre, call.T) /\ data = pre)

C7_Witness ==
  /\ call.op = "try_take"
  /\ ret = None
  /\ MapLen(data) > 0

\* C8: len() is the number of present types and is_empty() holds iff it is
\* 0; a new store has len 0; put of an absent type adds 1, put of a present
\* type adds nothing, a successful take / try_take subtracts 1.
C8_SizeTracking ==
  /\ MapLen(data) = PresentCount
  /\ MapIsEmpty(data) <=> (MapLen(data) = 0)
  /\ call.op = "default" => (MapLen(data) = 0 /\ MapIsEmpty(data))
  /\ call.op = "len" => ret = Usize(PresentCount)
  /\ call.op = "is_empty" => ret = Bool(PresentCount = 0)
  /\ (call.op = "put" /\ ~has(pre, call.T)) => MapLen(data) = MapLen(pre) + 1
  /\ (call.op = "put" /\ has(pre, call.T)) => MapLen(data) = MapLen(pre)
  /\ (call.op \in Takes /\ ret.kind \in {"Some", "Val"})
       => MapLen(data) = MapLen(pre) - 1

C8_Witness ==
  /\ call.op = "take"
  /\ ret.kind = "Val"
  /\ MapLen(pre) = 3
  /\ MapLen(data) = 2

\* C9: Alias1 and Alias2 name one type and share one entry: has, borrow and
\* take agree under both names, a put under one name is what the other name
\* reads, and after a take under one name try_take is None under both.
C9_AliasesShareEntry ==
  /\ has(data, "Alias1") = has(data, "Alias2")
  /\ borrow(data, "Alias1") = borrow(data, "Alias2")
  /\ take(data, "Alias1") = take(data, "Alias2")
  /\ (call.op = "put" /\ call.T \in Aliases) =>
       \A N \in Aliases : try_borrow(data, N) = Some(call.v)
  /\ (call.op \in Takes /\ call.T \in Aliases) =>
       \A N \in Aliases : try_take(data, N).ret = None

C9_Witness ==
  /\ call.op = "put"
  /\ call.T = "Alias2"
  /\ has(pre, "Alias1")
  /\ pre[TypeIdOf("Alias1")].val # call.v

\* C10: a value w assigned through borrow_mut / try_borrow_mut is stored in
\* place: borrow then yields w, take returns w, has is true before that take
\* and false after it, and the mutable borrow leaves the entry count alone.
C10_MutationInPlace ==
  (call.op \in MutBorrows /\ has(pre, call.T)) =>
    /\ ret.val = pre[TypeIdOf(call.T)].val
    /\ borrow(data, call.T) = Val(call.v)
    /\ take(data, call.T).ret = Val(call.v)
    /\ has(data, call.T)
    /\ ~has(take(data, call.T).data, call.T)
    /\ MapLen(data) = MapLen(pre)

C10_Witness ==
  /\ call.op \in MutBorrows
  /\ has(pre, call.T)
  /\ pre[TypeIdOf(call.T)].val # call.v

====
